---- MODULE Spec2Model ----
(***************************************************************************)
(* RenameTypes::transform (src/core/config/transformer/rename_types.rs):   *)
(* renames the keys of config.types after a rename mapping, moves the      *)
(* schema roots along, and rewrites the field and argument type_of         *)
(* references through the lookup table built while renaming.               *)
(*                                                                         *)
(* A map is a sequence of entries [k |-> key, v |-> value] with pairwise    *)
(* distinct keys, in its iteration order.  An Option<String> is None or    *)
(* Some(name).                                                             *)
(***************************************************************************)
EXTENDS Integers, Sequences, FiniteSets, TLC

(* ------------------------------ bounds -------------------------------- *)

MaxPairs == 2

(* --------------------------- input domains ---------------------------- *)

\* Option<String>: None is no name at all, Some(name) holds one
None == << >>

Some(name) == <<name>>

TypeNames == {"A", "B", "C"}
SuggestedNames == TypeNames \cup {"D"}

\* the names in the order of String's Ord: those of the input domains and
\* those of the tests of the source
NameOrder ==
    <<"A", "B", "C", "D", "InputUser", "Mutation", "None", "Post",
      "PostQuery", "Q", "Query", "User", "UserMutation", "X", "Y", "Z">>

Rank(name) == CHOOSE i \in DOMAIN NameOrder : NameOrder[i] = name

\* the map types Config::types may be declared with: the key-sorted
\* BTreeMap of std or the insertion-ordered IndexMap
TypesKinds == {"btree", "indexmap"}

(* -------------------------------- state ------------------------------- *)

VARIABLES
    types_kind, \* the map type of Config::types
    self,       \* RenameTypes.0, the rename mapping
    given,      \* the configuration handed to transform
    config,     \* the local configuration being rewritten
    lookup,     \* old name -> new name of the pairs renamed so far
    errors,     \* errors gathered by Valid::from_iter
    idx,        \* position of the next pair of the mapping
    pc,         \* "rename", "done"
    result      \* the Valid returned, or None while running

vars == <<types_kind, self, given, config, lookup, errors, idx, pc, result>>

(* ------------------------- ordered-map helpers ------------------------ *)

MapKeys(m) == {m[p].k : p \in DOMAIN m}

MapHas(m, key) == \E p \in DOMAIN m : m[p].k = key

MapIndex(m, key) == CHOOSE p \in DOMAIN m : m[p].k = key

MapGet(m, key) == m[MapIndex(m, key)].v

\* IndexMap::insert: an existing key keeps its slot and takes the new value,
\* a new key is appended.
IndexMapInsert(m, key, value) ==
    IF MapHas(m, key)
    THEN [m EXCEPT ![MapIndex(m, key)] = [k |-> key, v |-> value]]
    ELSE Append(m, [k |-> key, v |-> value])

\* config.types.contains_key(name)
TypesContainsKey(types, name) == MapHas(types, name)

\* IndexMap::remove, which is swap_remove: the last entry takes the slot of
\* the removed one.
IndexMapRemove(m, key) ==
    IF ~MapHas(m, key) THEN m
    ELSE [p \in 1..(Len(m) - 1) |->
             IF p = MapIndex(m, key) THEN m[Len(m)] ELSE m[p]]

\* BTreeMap::remove: the entry leaves the map, the others stay sorted.
BTreeMapRemove(m, key) == SelectSeq(m, LAMBDA e : e.k # key)

\* BTreeMap::insert: an existing key takes the new value, a new key goes to
\* its place in the order of the keys.
BTreeMapInsert(m, key, value) ==
    IF MapHas(m, key)
    THEN [m EXCEPT ![MapIndex(m, key)] = [k |-> key, v |-> value]]
    ELSE SelectSeq(m, LAMBDA e : Rank(e.k) < Rank(key))
         \o <<[k |-> key, v |-> value]>>
         \o SelectSeq(m, LAMBDA e : Rank(e.k) > Rank(key))

\* config.types.remove(name)
TypesRemove(types, name) ==
    IF types_kind = "btree" THEN BTreeMapRemove(types, name)
    ELSE IndexMapRemove(types, name)

\* config.types.insert(name, type_info)
TypesInsert(types, name, type_info) ==
    IF types_kind = "btree" THEN BTreeMapInsert(types, name, type_info)
    ELSE IndexMapInsert(types, name, type_info)

(* --------------------------- RenameTypes::new ------------------------- *)

RECURSIVE CollectPairs(_, _)
CollectPairs(pairs, n) ==
    IF n = 0 THEN << >>
    ELSE IndexMapInsert(CollectPairs(pairs, n - 1), pairs[n][1], pairs[n][2])

\* RenameTypes::new: the pairs collected into an IndexMap (a repeated
\* old name keeps its first slot and takes the last new name).
New(suggested_names) == CollectPairs(suggested_names, Len(suggested_names))

(* ------------------------------- errors ------------------------------- *)

NotFound(existing_name) ==
    "Type '" \o existing_name \o "' not found in configuration."

(* ------------------------ phase 1: one rename pair -------------------- *)

\* lines 42-46: the operation-type edge case
RenameRoot(schema, existing_name, suggested_name) ==
    IF schema.query = Some(existing_name)
    THEN [schema EXCEPT !.query = Some(suggested_name)]
    ELSE IF schema.mutation = Some(existing_name)
         THEN [schema EXCEPT !.mutation = Some(suggested_name)]
         ELSE schema

\* a rename that inserts without removing the existing name
RenameKey_KeepOld(types, existing_name, suggested_name) ==
    TypesInsert(types, suggested_name, MapGet(types, existing_name))

\* a rename that keeps the type already stored under the suggested name
RenameKey_KeepExisting(types, existing_name, suggested_name) ==
    IF MapHas(TypesRemove(types, existing_name), suggested_name)
    THEN TypesRemove(types, existing_name)
    ELSE TypesInsert(TypesRemove(types, existing_name), suggested_name,
                     MapGet(types, existing_name))

\* lines 37-38: remove the type and insert it under the suggested name
RenameKey(types, existing_name, suggested_name) ==
    TypesInsert(TypesRemove(types, existing_name), suggested_name,
                MapGet(types, existing_name))

\* a closure that passes over a missing type without an error
RenamePair_SkipMissing(cfg, lkp, existing_name, suggested_name) ==
    IF ~TypesContainsKey(cfg.types, existing_name)
    THEN [config |-> cfg, lookup |-> lkp, errors |-> << >>]
    ELSE [config |-> [types  |-> RenameKey(cfg.types, existing_name,
                                           suggested_name),
                      schema |-> RenameRoot(cfg.schema, existing_name,
                                            suggested_name)],
          lookup |-> IndexMapInsert(lkp, existing_name, suggested_name),
          errors |-> << >>]

\* lines 30-51: the closure given to Valid::from_iter, applied to one pair.
\* It yields the configuration and lookup it leaves and the errors of the
\* Valid it returns (none for Valid::succeed).
RenamePair(cfg, lkp, existing_name, suggested_name) ==
    IF ~TypesContainsKey(cfg.types, existing_name)
    THEN [config |-> cfg, lookup |-> lkp,
          errors |-> <<NotFound(existing_name)>>]
    ELSE [config |-> [types  |-> RenameKey(cfg.types, existing_name,
                                           suggested_name),
                      schema |-> RenameRoot(cfg.schema, existing_name,
                                            suggested_name)],
          lookup |-> IndexMapInsert(lkp, existing_name, suggested_name),
          errors |-> << >>]

(* ---------------------- phase 2: reference rewrite -------------------- *)

\* a lookup that follows the renames to their end
RewriteRef_Chained(lkp, type_of) ==
    IF MapHas(lkp, type_of)
    THEN IF MapHas(lkp, MapGet(lkp, type_of))
         THEN MapGet(lkp, MapGet(lkp, type_of))
         ELSE MapGet(lkp, type_of)
    ELSE type_of

\* a lookup that falls back to the empty name
RewriteRef_OrDefault(lkp, type_of) ==
    IF MapHas(lkp, type_of) THEN MapGet(lkp, type_of) ELSE ""

\* lines 56-58 and 61-63: if let Some(suggested_name) = lookup.get(type_of)
RewriteRef(lkp, type_of) ==
    IF MapHas(lkp, type_of) THEN MapGet(lkp, type_of) ELSE type_of

RewriteArgs(lkp, args) ==
    [a \in DOMAIN args |->
        [k |-> args[a].k,
         v |-> [type_of |-> RewriteRef(lkp, args[a].v.type_of)]]]

RewriteFields(lkp, fields) ==
    [f \in DOMAIN fields |->
        [k |-> fields[f].k,
         v |-> [type_of |-> RewriteRef(lkp, fields[f].v.type_of),
                args    |-> RewriteArgs(lkp, fields[f].v.args)]]]

\* lines 52-69: the closure given to Valid::map
RewriteRefs(cfg, lkp) ==
    [types  |-> [t \in DOMAIN cfg.types |->
                    [k |-> cfg.types[t].k,
                     v |-> [fields |->
                               RewriteFields(lkp, cfg.types[t].v.fields)]]],
     schema |-> cfg.schema]

(* -------------------------------- Valid ------------------------------- *)

Succeed(value) == [ok |-> TRUE, value |-> value]

FailCause(errs) == [ok |-> FALSE, errors |-> errs]

(* ----------------------- transform as a function ---------------------- *)

RECURSIVE FromIter(_, _, _)
\* Valid::from_iter over the first n pairs of the mapping: every pair is
\* visited and the errors are concatenated in mapping order.
FromIter(cfg, mapping, n) ==
    IF n = 0 THEN [config |-> cfg, lookup |-> << >>, errors |-> << >>]
    ELSE LET before == FromIter(cfg, mapping, n - 1)
             step   == RenamePair(before.config, before.lookup,
                                  mapping[n].k, mapping[n].v)
         IN  [config |-> step.config, lookup |-> step.lookup,
              errors |-> before.errors \o step.errors]

Transform(mapping, cfg) ==
    LET phase1 == FromIter(cfg, mapping, Len(mapping))
    IN  IF phase1.errors = << >>
        THEN Succeed(RewriteRefs(phase1.config, phase1.lookup))
        ELSE FailCause(phase1.errors)

(* ------------------------------- inputs ------------------------------- *)

Options == {None} \cup {Some(n) : n \in TypeNames}

\* a -> b -> c -> a over the type names, to give a field and its argument
\* different references
Other(t) == IF t = "A" THEN "B" ELSE IF t = "B" THEN "C" ELSE "A"

\* a type with one field "f" without arguments, or with one field "g" that
\* takes one argument "x"
TypeInfos ==
    {[fields |-> <<[k |-> "f", v |-> [type_of |-> t, args |-> << >>]]>>] :
        t \in TypeNames}
    \cup
    {[fields |-> <<[k |-> "g",
                   v |-> [type_of |-> Other(t),
                          args |-> <<[k |-> "x",
                                      v |-> [type_of |-> t]]>>]]>>] :
        t \in TypeNames}

\* a type without fields
EmptyTypeInfo == [fields |-> << >>]

RECURSIVE SeqsUpTo(_, _)
SeqsUpTo(S, n) ==
    IF n = 0 THEN {<< >>}
    ELSE LET shorter == SeqsUpTo(S, n - 1)
         IN  shorter \cup {Append(s, x) : s \in shorter, x \in S}

Distinct(m) == \A p, q \in DOMAIN m : m[p].k = m[q].k => p = q

\* the ordered maps of pairwise distinct type names to the given bodies
TypeMaps(bodies) ==
    {m \in SeqsUpTo({[k |-> n, v |-> b] : n \in TypeNames, b \in bodies},
                    Cardinality(TypeNames)) : Distinct(m)}

NoRoots == [query |-> None, mutation |-> None, subscription |-> None]

Schemas == [query : Options, mutation : Options, subscription : Options]

\* configurations that vary the references with no schema root set, and
\* configurations that vary the schema roots over types without fields
Configs ==
    [types : TypeMaps(TypeInfos), schema : {NoRoots}]
    \cup [types : TypeMaps({EmptyTypeInfo}), schema : Schemas]

Mappings ==
    {New(pairs) : pairs \in SeqsUpTo(TypeNames \X SuggestedNames, MaxPairs)}

\* a BTreeMap holds its keys in their order
Sorted(m) == \A p, q \in DOMAIN m : p < q => Rank(m[p].k) < Rank(m[q].k)

(* ------------------------------ behaviour ----------------------------- *)

Init ==
    /\ types_kind \in TypesKinds
    /\ self \in Mappings
    /\ given \in Configs
    /\ types_kind = "btree" => Sorted(given.types)
    /\ config = given
    /\ lookup = << >>
    /\ errors = << >>
    /\ idx = 1
    /\ pc = "rename"
    /\ result = None

\* lines 31-35: the pair names a type that is not in config.types
PairNotFound ==
    /\ pc = "rename"
    /\ idx <= Len(self)
    /\ ~TypesContainsKey(config.types, self[idx].k)
    /\ LET step == RenamePair(config, lookup, self[idx].k, self[idx].v)
       IN  /\ config' = step.config
           /\ lookup' = step.lookup
           /\ errors' = errors \o step.errors
    /\ idx' = idx + 1
    /\ UNCHANGED <<types_kind, self, given, pc, result>>

\* lines 36-50: the pair names a type of config.types, which is renamed
PairRenamed ==
    /\ pc = "rename"
    /\ idx <= Len(self)
    /\ TypesContainsKey(config.types, self[idx].k)
    /\ LET step == RenamePair(config, lookup, self[idx].k, self[idx].v)
       IN  /\ config' = step.config
           /\ lookup' = step.lookup
           /\ errors' = errors \o step.errors
    /\ idx' = idx + 1
    /\ UNCHANGED <<types_kind, self, given, pc, result>>

\* lines 52-69: every pair succeeded, Valid::map rewrites the references
ReturnRewritten ==
    /\ pc = "rename"
    /\ idx > Len(self)
    /\ errors = << >>
    /\ config' = RewriteRefs(config, lookup)
    /\ result' = Succeed(config')
    /\ pc' = "done"
    /\ UNCHANGED <<types_kind, self, given, lookup, errors, idx>>

\* some pair failed: Valid::map leaves the failure as it is
ReturnErrors ==
    /\ pc = "rename"
    /\ idx > Len(self)
    /\ errors # << >>
    /\ result' = FailCause(errors)
    /\ pc' = "done"
    /\ UNCHANGED <<types_kind, self, given, config, lookup, errors, idx>>

Next == PairNotFound \/ PairRenamed \/ ReturnRewritten \/ ReturnErrors

Spec == Init /\ [][Next]_vars

(* ------------------------- vocabulary of the claims ------------------- *)

Done == pc = "done"

Succeeded == Done /\ result.ok

Failed == Done /\ ~result.ok

FieldRefs(fields) ==
    {fields[f].v.type_of : f \in DOMAIN fields}
    \cup UNION {{fields[f].v.args[a].v.type_of :
                    a \in DOMAIN fields[f].v.args} : f \in DOMAIN fields}

TypeRefs(cfg) ==
    UNION {FieldRefs(cfg.types[t].v.fields) : t \in DOMAIN cfg.types}

RootRefs(cfg) ==
    {root[1] : root \in {cfg.schema.query, cfg.schema.mutation,
                         cfg.schema.subscription} \ {None}}

Resolved(cfg) == (TypeRefs(cfg) \cup RootRefs(cfg)) \subseteq MapKeys(cfg.types)

\* one step of the rename mapping
Renamed(name) == IF MapHas(self, name) THEN MapGet(self, name) ELSE name

\* one step of the rename mapping on a schema root
RenamedRoot(root) == IF root = None THEN None ELSE Some(Renamed(root[1]))

KeySeq(types) == [p \in DOMAIN types |-> types[p].k]

(* ---------------------------------------------------------------------- *)
(* C1  Referential integrity after success: when every type_of and every  *)
(* set schema root of the given configuration names a key of its types    *)
(* and transform succeeds, every type_of and every set schema root of the *)
(* returned configuration names a key of the returned types.              *)
(* ---------------------------------------------------------------------- *)
C1_ReferentialIntegrity ==
    (Succeeded /\ Resolved(given)) => Resolved(result.value)

(* ---------------------------------------------------------------------- *)
(* C2  Existence precondition with full-batch reporting: transform fails  *)
(* exactly when some pair's old name is not a key of the given types, and *)
(* the failure lists one "not found" message for each such pair, in       *)
(* mapping order, and nothing else.                                       *)
(* ---------------------------------------------------------------------- *)
MissingInGiven ==
    SelectSeq(self, LAMBDA e : e.k \notin MapKeys(given.types))

C2_ExistencePrecondition ==
    Done =>
       /\ (~result.ok) <=> (MissingInGiven # << >>)
       /\ (~result.ok) =>
             result.errors =
                [p \in DOMAIN MissingInGiven |->
                    "Type '" \o MissingInGiven[p].k
                             \o "' not found in configuration."]

(* ---------------------------------------------------------------------- *)
(* C3  Referential closure: after a successful transform every returned   *)
(* type is a given type whose field and argument type_of values went      *)
(* through one step of the mapping: an old name became its new name, any  *)
(* other name stayed.                                                     *)
(* ---------------------------------------------------------------------- *)
ArgsMapped(ain, aout) ==
    /\ DOMAIN aout = DOMAIN ain
    /\ \A a \in DOMAIN ain :
          /\ aout[a].k = ain[a].k
          /\ aout[a].v.type_of = Renamed(ain[a].v.type_of)

FieldsMapped(fin, fout) ==
    /\ DOMAIN fout = DOMAIN fin
    /\ \A f \in DOMAIN fin :
          /\ fout[f].k = fin[f].k
          /\ fout[f].v.type_of = Renamed(fin[f].v.type_of)
          /\ ArgsMapped(fin[f].v.args, fout[f].v.args)

C3_ReferentialClosure ==
    Succeeded =>
       \A t \in DOMAIN result.value.types :
          \E s \in DOMAIN given.types :
             FieldsMapped(given.types[s].v.fields,
                          result.value.types[t].v.fields)

\* a success where a field names an old name whose new name is itself an
\* old name, and an argument names a type the mapping leaves alone
C3_Witness ==
    /\ Succeeded
    /\ \E s \in DOMAIN given.types :
          \E f \in DOMAIN given.types[s].v.fields :
             LET field == given.types[s].v.fields[f].v
             IN  /\ MapHas(self, field.type_of)
                 /\ MapHas(self, Renamed(field.type_of))
                 /\ Renamed(Renamed(field.type_of)) # Renamed(field.type_of)
                 /\ \E a \in DOMAIN field.args :
                       ~MapHas(self, field.args[a].v.type_of)
    /\ \E t \in DOMAIN result.value.types :
          result.value.types[t].v.fields # << >>

(* ---------------------------------------------------------------------- *)
(* C4  Schema-root rewrite: after a successful transform schema.query and *)
(* schema.mutation each hold the new name of the old name they held, or   *)
(* their given value when it is not an old name of the mapping.           *)
(* ---------------------------------------------------------------------- *)
C4_SchemaRootRewrite ==
    Succeeded =>
       /\ result.value.schema.query = RenamedRoot(given.schema.query)
       /\ result.value.schema.mutation = RenamedRoot(given.schema.mutation)

(* ---------------------------------------------------------------------- *)
(* C5  Order preservation: after a successful transform the types that    *)
(* were not renamed keep their relative order and every renamed type      *)
(* sits at the position its old name had.                                 *)
(* ---------------------------------------------------------------------- *)
NotRenamed(types) ==
    SelectSeq(KeySeq(types),
              LAMBDA key : key \in MapKeys(given.types) /\ ~MapHas(self, key))

C5_OrderPreservation ==
    Succeeded =>
       /\ NotRenamed(result.value.types) = NotRenamed(given.types)
       /\ \A p \in DOMAIN given.types :
             MapHas(self, given.types[p].k) =>
                /\ p \in DOMAIN result.value.types
                /\ result.value.types[p].k = Renamed(given.types[p].k)

(* ---------------------------------------------------------------------- *)
(* C6  Independence of processing order: transform gives the same outcome *)
(* for every order of the same pairs: success or failure alike, and on    *)
(* success the same types (keys with bodies) and the same schema roots.   *)
(* ---------------------------------------------------------------------- *)
Entries(m) == {m[p] : p \in DOMAIN m}

Reorderings(m) ==
    {r \in [DOMAIN m -> Entries(m)] : Entries(r) = Entries(m)}

SameOutcome(r1, r2) ==
    /\ r1.ok = r2.ok
    /\ r1.ok => /\ Entries(r1.value.types) = Entries(r2.value.types)
                /\ r1.value.schema = r2.value.schema

C6_OrderIndependence ==
    Done => \A r \in Reorderings(self) :
               SameOutcome(result, Transform(r, given))

(* ---------------------------------------------------------------------- *)
(* C7  No partial rewrite on failure: when a pair fails its existence     *)
(* check, wherever it sits in the mapping, transform returns a failure    *)
(* that carries the gathered errors and no configuration.                 *)
(* ---------------------------------------------------------------------- *)
\* a pair whose old name is neither a given type nor made by an earlier pair
SomePairMissing ==
    \E p \in DOMAIN self :
       /\ self[p].k \notin MapKeys(given.types)
       /\ \A q \in 1..(p - 1) : self[q].v # self[p].k

C7_NoPartialRewrite ==
    (Done /\ (errors # << >> \/ SomePairMissing)) =>
       /\ ~result.ok
       /\ DOMAIN result = {"ok", "errors"}
       /\ result.errors = errors
       /\ result.errors # << >>

\* a failure whose missing pair came after a pair that renamed a type
C7_Witness ==
    /\ Failed
    /\ lookup # << >>
    /\ config.types # given.types
    /\ SomePairMissing
    /\ MapHas(given.types, self[1].k)
    /\ self[1].v # self[1].k

(* ---------------------------------------------------------------------- *)
(* C8  No-op rename: with an empty mapping transform succeeds and returns *)
(* the given configuration: same keys in the same order, same bodies,     *)
(* same type_of values, same schema roots.                                *)
(* ---------------------------------------------------------------------- *)
C8_EmptyMapping ==
    (Done /\ self = << >>) => result = Succeed(given)

C8_Witness ==
    /\ Done
    /\ self = << >>
    /\ Len(given.types) = 3
    /\ TypeRefs(given) # {}

(* ---------------------------------------------------------------------- *)
(* C9  Pure substitution with fresh names: when every old name is a given *)
(* type and the new names are pairwise distinct and are not given types,  *)
(* transform succeeds, keeps the number of types, replaces each old key   *)
(* by its new name, and every type keeps its field and argument names.    *)
(* ---------------------------------------------------------------------- *)
FreshMapping ==
    /\ MapKeys(self) \subseteq MapKeys(given.types)
    /\ \A p, q \in DOMAIN self : self[p].v = self[q].v => p = q
    /\ \A p \in DOMAIN self : self[p].v \notin MapKeys(given.types)

Shape(type_info) ==
    [f \in DOMAIN type_info.fields |->
        [name |-> type_info.fields[f].k,
         args |-> KeySeq(type_info.fields[f].v.args)]]

C9_PureSubstitution ==
    (Done /\ FreshMapping) =>
       /\ result.ok
       /\ Len(result.value.types) = Len(given.types)
       /\ MapKeys(result.value.types) =
             {Renamed(key) : key \in MapKeys(given.types)}
       /\ \A key \in MapKeys(given.types) :
             Shape(MapGet(result.value.types, Renamed(key))) =
                Shape(MapGet(given.types, key))

\* two fresh pairs on types of different shapes
C9_Witness ==
    /\ Done
    /\ FreshMapping
    /\ Len(self) = 2
    /\ \E s, t \in DOMAIN given.types :
          Shape(given.types[s].v) # Shape(given.types[t].v)

(* ---------------------------------------------------------------------- *)
(* C10  Colliding new names overwrite silently.  As claimed: a pair whose *)
(* old name exists and whose new name is a key of types when the pair is  *)
(* processed reports no error, the body moved from the old name replaces  *)
(* the body under the new name, types shrinks by one entry and the old    *)
(* name enters the lookup; after a success every type_of that named an    *)
(* old name of a shared new name equals that new name.  As amended: the   *)
(* same for a pair whose new name differs from its old name.              *)
(* ---------------------------------------------------------------------- *)
Collides ==
    /\ pc = "rename"
    /\ idx <= Len(self)
    /\ MapHas(config.types, self[idx].k)
    /\ MapHas(config.types, self[idx].v)

Overwrites ==
    /\ errors' = errors
    /\ Len(config'.types) = Len(config.types) - 1
    /\ MapKeys(config'.types) = MapKeys(config.types) \ {self[idx].k}
    /\ MapGet(config'.types, self[idx].v) = MapGet(config.types, self[idx].k)
    /\ MapHas(lookup', self[idx].k)
    /\ MapGet(lookup', self[idx].k) = self[idx].v

\* the old names whose new name is the new name of another pair
SharedOld ==
    {self[p].k : p \in {p \in DOMAIN self :
                           \E q \in DOMAIN self : q # p /\ self[q].v = self[p].v}}

ArgsFollow(ain, aout) ==
    /\ DOMAIN aout = DOMAIN ain
    /\ \A a \in DOMAIN ain :
          ain[a].v.type_of \in SharedOld =>
             aout[a].v.type_of = MapGet(self, ain[a].v.type_of)

FieldsFollow(fin, fout) ==
    /\ DOMAIN fout = DOMAIN fin
    /\ \A f \in DOMAIN fin :
          /\ fout[f].k = fin[f].k
          /\ fin[f].v.type_of \in SharedOld =>
                fout[f].v.type_of = MapGet(self, fin[f].v.type_of)
          /\ ArgsFollow(fin[f].v.args, fout[f].v.args)

SharedResolve ==
    (pc' = "done" /\ result'.ok) =>
       /\ \A old \in SharedOld :
             MapHas(lookup', old) /\ MapGet(lookup', old) = MapGet(self, old)
       /\ \A t \in DOMAIN result'.value.types :
             \E s \in DOMAIN given.types :
                FieldsFollow(given.types[s].v.fields,
                             result'.value.types[t].v.fields)

C10_CollisionOverwrites ==
    [][/\ (Collides /\ self[idx].v # self[idx].k) => Overwrites
       /\ SharedResolve]_vars

C10_AnyCollisionOverwrites ==
    [][/\ Collides => Overwrites
       /\ SharedResolve]_vars

\* a success of two pairs with one new name, where the second pair found
\* the first pair's type under that name and the given types name both
\* old names
C10_Witness ==
    /\ Succeeded
    /\ Len(self) = 2
    /\ self[1].v = self[2].v
    /\ self[2].v \notin {self[1].k, self[2].k}
    /\ Len(result.value.types) = Len(given.types) - 1
    /\ {self[1].k, self[2].k} \subseteq TypeRefs(given)
    /\ TypeRefs(result.value) # {}

====
